---- MODULE Spec2Model ----
(***************************************************************************)
(* A model of the data-quality assessment, missing-value remediation and   *)
(* aggregation engine of Excel-Processor-Pro:                              *)
(*   data_processor.py      FlexibleDataProcessor                          *)
(*   ai_assistant_dialog.py DataQualityAssessment                          *)
(*   gui_components.py      NaNHandlingFrame.get_nan_strategy              *)
(*   validators.py          DataValidator                                  *)
(*                                                                         *)
(* Numbers are fixed-point with two decimals: the integer 1000 stands for  *)
(* 10.00 and a percentage of 3333 for 33.33%.  That is the resolution of   *)
(* every round(x, 2) in the source.  A comparison the source makes on an   *)
(* unrounded quotient is made exactly, by cross-multiplication.            *)
(*                                                                         *)
(* pandas is modelled without copy-on-write: df[col].fillna(value,         *)
(* inplace=True) writes through to the frame, as it does in the pandas 1.x *)
(* and 2.x releases the program runs on.                                   *)
(***************************************************************************)
EXTENDS Integers, Sequences, FiniteSets, TLC

VARIABLES
    df,        \* the table an operation is applied to (a pandas DataFrame)
    last,      \* the last operation applied to df, with arguments and outcome
    col,       \* a column profile: row count, missing count, dtype, statistics
    colOut,    \* what the analysers derive from the profile col
    scoreIn,   \* arguments of _calculate_quality_score, or a table given by
               \* its row count and column profiles for assess_data_quality
    scoreOut,  \* the result of the call on scoreIn
    processor, \* FlexibleExcelProcessor: raw_data, processed_data, analyzed_data
    gui,       \* ExcelProcessorGUI: custom_nan_strategy, analysis_result and the
               \* NaN panel
    status,    \* the state shown by the status bar
    threads,   \* the analysis worker threads: position and local variables
    posted     \* the callbacks posted with root.after, not yet run

vars == <<df, last, col, colOut, scoreIn, scoreOut, processor, gui, status, threads,
          posted>>

-----------------------------------------------------------------------------
(* Bounds of the model.                                                    *)

MaxRows == 2          \* rows of an enumerated table
MaxPanelRows == 2     \* rows of an enumerated table the NaN panel is exercised on
MaxProfileRows == 6   \* rows of an enumerated column profile
MaxOutliers == 7      \* outliers of a column profile
MaxIssues == 6        \* issues of one severity handed to the scorer
MaxColumns == 6       \* columns of a table given by its column profiles
MaxSteps == 5         \* user actions of a session
MaxWorkers == 2       \* analysis threads started in a session

-----------------------------------------------------------------------------
(* Cells.  A cell is missing (NaN/None), a number or a text.               *)

NaN == <<"nan">>
Num(c) == <<"num", c>>
Str(s) == <<"str", s>>
None == <<"none">>

IsNum(cell) == cell[1] = "num"
IsStr(cell) == cell[1] = "str"

\* round(n/d, 0) to the nearest integer, ties to even (d > 0): the rounding
\* of round(x, 2) on a value counted in hundredths.
RoundHalfEven(n, d) ==
    LET q == n \div d
        r == n % d
    IN  IF 2 * r < d THEN q
        ELSE IF 2 * r > d THEN q + 1
        ELSE IF q % 2 = 0 THEN q ELSE q + 1

\* dict.get(key, default) on a dict modelled as a function
Get(d, k, default) == IF k \in DOMAIN d THEN d[k] ELSE default

EmptyDict == <<>>

-----------------------------------------------------------------------------
(* Series (one column of a table: a sequence of cells).                    *)

isnull_sum(s) == Cardinality({i \in DOMAIN s : s[i] = NaN})

dropna(s) == SelectSeq(s, LAMBDA v : v # NaN)

\* pd.api.types.is_numeric_dtype: float64/int64 columns
is_numeric_dtype(dtype) == dtype = "float64"

\* The dtype pandas infers for a column read from a sheet: float64 when every
\* cell is a number or missing, object otherwise (an empty column is object).
InferDtype(s) ==
    IF Len(s) > 0 /\ \A i \in DOMAIN s : s[i] = NaN \/ IsNum(s[i])
    THEN "float64" ELSE "object"

RECURSIVE Insert(_, _)
Insert(sorted, v) ==
    IF sorted = <<>> THEN <<v>>
    ELSE IF v <= Head(sorted) THEN <<v>> \o sorted
    ELSE <<Head(sorted)>> \o Insert(Tail(sorted), v)

RECURSIVE SortInts(_)
SortInts(s) == IF s = <<>> THEN <<>> ELSE Insert(SortInts(Tail(s)), Head(s))

NumValues(valid) == [i \in DOMAIN valid |-> valid[i][2]]

RECURSIVE SumInts(_)
SumInts(s) == IF s = <<>> THEN 0 ELSE Head(s) + SumInts(Tail(s))

\* round(valid_data.mean(), 2)
series_mean(valid) == RoundHalfEven(SumInts(NumValues(valid)), Len(valid))

\* round(valid_data.median(), 2)
series_median(valid) ==
    LET v == SortInts(NumValues(valid))
        m == Len(v)
    IN  IF m % 2 = 1 THEN v[(m + 1) \div 2]
        ELSE RoundHalfEven(v[m \div 2] + v[m \div 2 + 1], 2)

series_min(valid) == SortInts(NumValues(valid))[1]
series_max(valid) == SortInts(NumValues(valid))[Len(valid)]

Occurrences(s, v) == Cardinality({i \in DOMAIN s : s[i] = v})

\* The order pandas sorts texts in (code-point order) over the texts of the model.
TextOrder == <<"", "7", "N/A", "Unknown", "a", "b", "x">>
TextRank(t) == CHOOSE i \in DOMAIN TextOrder : TextOrder[i] = t

CellLess(a, b) ==
    IF IsNum(a) /\ IsNum(b) THEN a[2] < b[2]
    ELSE IF IsStr(a) /\ IsStr(b) THEN TextRank(a[2]) < TextRank(b[2])
    ELSE FALSE

FirstIndex(s, v) == CHOOSE i \in DOMAIN s : s[i] = v /\ \A j \in 1..(i - 1) : s[j] # v

\* valid_data.mode().iloc[0]: the most frequent values, sorted, the first of
\* them; pandas leaves modes it cannot sort (numbers mixed with texts) in
\* order of first occurrence.
series_mode(valid) ==
    LET values == {valid[i] : i \in DOMAIN valid}
        top == {v \in values : \A w \in values : Occurrences(valid, w) <= Occurrences(valid, v)}
        sortable == (\A v \in top : IsNum(v)) \/ (\A v \in top : IsStr(v))
    IN  IF sortable
        THEN CHOOSE v \in top : \A w \in top \ {v} : CellLess(v, w)
        ELSE CHOOSE v \in top : \A w \in top : FirstIndex(valid, v) <= FirstIndex(valid, w)

nunique(valid) == Cardinality({valid[i] : i \in DOMAIN valid})

-----------------------------------------------------------------------------
(* Tables.  rows: a sequence of rows, each a function from column name to   *)
(* cell; dtype: the dtype each column carries.                             *)

Series(t, c) == [i \in DOMAIN t.rows |-> t.rows[i][c]]

ColumnSet(t) == {t.columns[i] : i \in DOMAIN t.columns}

\* df.empty
IsEmpty(t) == Len(t.rows) = 0 \/ Len(t.columns) = 0

-----------------------------------------------------------------------------
(* FlexibleDataProcessor.analyze_nan_values                                *)

ZeroSuggestions ==
    [mean |-> Num(0), median |-> Num(0), mode |-> Num(0), min |-> Num(0), max |-> Num(0)]

\* the suggestions of a numeric column from its non-missing values
NumericSuggestions(valid) ==
    [mean |-> Num(series_mean(valid)),
     median |-> Num(series_median(valid)),
     mode |-> series_mode(valid),
     min |-> Num(series_min(valid)),
     max |-> Num(series_max(valid))]

\* series.quantile(q / 4) of sorted values (linear interpolation), times 4
Quantile4(v, q) ==
    LET pos == q * (Len(v) - 1)
        lo == pos \div 4 + 1
        r == pos % 4
    IN  IF r = 0 THEN 4 * v[lo] ELSE 4 * v[lo] + r * (v[lo + 1] - v[lo])

\* the values outside [q1 - 1.5 iqr, q3 + 1.5 iqr], in their order
Outliers(valid) ==
    LET nums == NumValues(valid)
        v == SortInts(nums)
        q1 == Quantile4(v, 1)
        q3 == Quantile4(v, 3)
        iqr == q3 - q1
    IN  SelectSeq(nums, LAMBDA n : 8 * n < 2 * q1 - 3 * iqr \/ 8 * n > 2 * q3 + 3 * iqr)

\* What the analysers read of a series: its length, its missing count, its
\* dtype and the statistics of its non-missing values.
Profile(s, dtype) ==
    LET valid == dropna(s)
    IN  [total_count |-> Len(s),
         null_count |-> isnull_sum(s),
         dtype |-> dtype,
         stats |-> IF Len(valid) = 0 THEN EmptyDict
                   ELSE IF is_numeric_dtype(dtype) THEN NumericSuggestions(valid)
                   ELSE [mode |-> series_mode(valid), unique |-> nunique(valid)],
         outlier_count |-> IF is_numeric_dtype(dtype) /\ Len(valid) > 0
                           THEN Len(Outliers(valid)) ELSE 0]

Profiles(t) == [c \in ColumnSet(t) |-> Profile(Series(t, c), t.dtype[c])]

NumericRecommendation(suggestions) ==
    [type |-> "numeric", suggestions |-> suggestions, recommended |-> "median"]

CategoricalRecommendation(mode_value, unique_count) ==
    [type |-> "categorical", mode |-> mode_value, unique_values |-> unique_count,
     recommended |-> IF unique_count < 20 THEN "mode" ELSE "unknown"]

\* the recommendation of the column with profile p
ColumnRecommendation(p) ==
    LET valid_count == p.total_count - p.null_count
    IN  IF is_numeric_dtype(p.dtype)
        THEN NumericRecommendation(IF valid_count > 0 THEN p.stats ELSE ZeroSuggestions)
        ELSE IF valid_count > 0
             THEN CategoricalRecommendation(p.stats.mode, p.stats.unique)
             ELSE CategoricalRecommendation(Str("Unknown"), 0)

\* round((nan_count / len(df)) * 100, 2), in hundredths of a percent
RoundedPercentage(nan_count, total) == RoundHalfEven(nan_count * 10000, total)

ColumnNanInfo(nan_count, total, dtype) ==
    [count |-> nan_count, percentage |-> RoundedPercentage(nan_count, total), dtype |-> dtype]

\* analyze_nan_values of a table with total_rows rows whose columns have the
\* profiles given.  The final division raises on a table without cells (0 / 0)
\* and the except clause then returns {}.
NanAnalysis(profiles, total_rows) ==
    LET names == DOMAIN profiles
        total_cells == total_rows * Cardinality(names)
        with_nan == {c \in names : profiles[c].null_count > 0}
        RECURSIVE Total(_)
        Total(cs) == IF cs = {} THEN 0
                     ELSE LET c == CHOOSE k \in cs : TRUE
                          IN  profiles[c].null_count + Total(cs \ {c})
    IN  IF total_cells = 0 THEN EmptyDict
        ELSE [total_rows |-> total_rows,
              total_cells |-> total_cells,
              columns_with_nan |->
                  [c \in with_nan |->
                      ColumnNanInfo(profiles[c].null_count, total_rows, profiles[c].dtype)],
              total_nan_cells |-> Total(names),
              nan_percentage |-> RoundedPercentage(Total(names), total_cells),
              recommendations |-> [c \in with_nan |-> ColumnRecommendation(profiles[c])]]

analyze_nan_values(t) == NanAnalysis(Profiles(t), Len(t.rows))

-----------------------------------------------------------------------------
(* FlexibleDataProcessor._get_default_nan_strategy                         *)

\* nan_strategy=None: no strategy given
NoStrategy == [none |-> TRUE]

Fill(value) == [method |-> "fill", value |-> value]
Keep == [method |-> "keep"]
Drop == [method |-> "drop"]

TypeIs(recommendations, type) ==
    "type" \in DOMAIN recommendations /\ recommendations.type = type

\* the entry of one column that has missing cells (the loop body)
DefaultEntry(nan_info, recommendations) ==
    LET nan_percentage == nan_info.percentage
    IN  IF nan_percentage > 5000
        THEN Fill(Str("N/A"))
        ELSE IF nan_percentage > 2000
        THEN IF TypeIs(recommendations, "numeric")
             THEN Fill(recommendations.suggestions[recommendations.recommended])
             ELSE Fill(Str("Unknown"))
        ELSE IF TypeIs(recommendations, "numeric")
             THEN Fill(recommendations.suggestions[recommendations.recommended])
             ELSE Fill(Get(recommendations, "mode", Str("Unknown")))

\* a default strategy with entries for the columns with missing cells only
_get_default_nan_strategy_with_nan(columns, nan_analysis) ==
    [c \in columns \cap DOMAIN Get(nan_analysis, "columns_with_nan", EmptyDict) |->
        DefaultEntry(nan_analysis.columns_with_nan[c],
                     Get(Get(nan_analysis, "recommendations", EmptyDict), c, EmptyDict))]

_get_default_nan_strategy(columns, nan_analysis) ==
    [c \in columns |->
        IF c \in DOMAIN Get(nan_analysis, "columns_with_nan", EmptyDict)
        THEN DefaultEntry(nan_analysis.columns_with_nan[c],
                          Get(Get(nan_analysis, "recommendations", EmptyDict), c, EmptyDict))
        ELSE Keep]

-----------------------------------------------------------------------------
(* FlexibleDataProcessor.clean_data_with_strategy                          *)

\* a fillna that writes the value over every cell of the column
fillna_every_cell(t, c, fill_value) ==
    [t EXCEPT !.rows = [i \in DOMAIN t.rows |-> [t.rows[i] EXCEPT ![c] = fill_value]]]

\* a fillna that fills a copy of the column and leaves the frame as it was
fillna_on_copy(t, c, fill_value) == t

\* df[col].fillna(fill_value, inplace=True): a float64 column that receives a
\* text becomes an object column
fillna(t, c, fill_value) ==
    [t EXCEPT
        !.rows = [i \in DOMAIN t.rows |->
                    [t.rows[i] EXCEPT ![c] = IF @ = NaN THEN fill_value ELSE @]],
        !.dtype[c] = IF IsStr(fill_value) /\ isnull_sum(Series(t, c)) > 0
                     THEN "object" ELSE @]

\* a dropna without subset: rows with a missing cell in any column go
dropna_any(t, c) ==
    [t EXCEPT !.rows = SelectSeq(t.rows, LAMBDA r : \A k \in DOMAIN r : r[k] # NaN)]

\* df.dropna(subset=[col])
dropna_rows(t, c) == [t EXCEPT !.rows = SelectSeq(t.rows, LAMBDA r : r[c] # NaN)]

\* a drop_duplicates(keep='last'): the last of equal rows stays
RECURSIVE DedupRowsKeepLast(_)
DedupRowsKeepLast(rows) ==
    IF rows = <<>> THEN <<>>
    ELSE LET rest == DedupRowsKeepLast(Tail(rows))
         IN  IF \E i \in DOMAIN rest : rest[i] = Head(rows) THEN rest
             ELSE <<Head(rows)>> \o rest

\* df.drop_duplicates(): the first of equal rows stays, in place
RECURSIVE DedupRows(_)
DedupRows(rows) ==
    IF rows = <<>> THEN <<>>
    ELSE LET n == Len(rows)
             rest == DedupRows(SubSeq(rows, 1, n - 1))
         IN  IF \E i \in DOMAIN rest : rest[i] = rows[n] THEN rest
             ELSE Append(rest, rows[n])

\* a drop_duplicates whose result is discarded
drop_duplicates_discarded(t) == t

drop_duplicates(t) == [t EXCEPT !.rows = DedupRows(t.rows)]

\* a fill value recommended from the column as the loop has left it so far
FillValueOfCurrentRows(t, c, entry, nan_analysis) ==
    LET given == Get(entry, "value", None)
        recs == Get(analyze_nan_values(t), "recommendations", EmptyDict)
    IN  IF given # None THEN given
        ELSE IF c \in DOMAIN recs
        THEN IF recs[c].type = "numeric"
             THEN recs[c].suggestions[recs[c].recommended]
             ELSE Get(recs[c], "mode", Str("Unknown"))
        ELSE IF is_numeric_dtype(t.dtype[c]) THEN Num(0) ELSE Str("Unknown")

\* the fill value of a fill entry: the entry's own, else the recommended one,
\* else the dtype's fallback
FillValue(t, c, entry, nan_analysis) ==
    LET given == Get(entry, "value", None)
        recs == Get(nan_analysis, "recommendations", EmptyDict)
    IN  IF given # None THEN given
        ELSE IF c \in DOMAIN recs
        THEN IF recs[c].type = "numeric"
             THEN recs[c].suggestions[recs[c].recommended]
             ELSE Get(recs[c], "mode", Str("Unknown"))
        ELSE IF is_numeric_dtype(t.dtype[c]) THEN Num(0) ELSE Str("Unknown")

\* one pass of the column loop; a method other than fill, drop and keep
\* matches no branch
ApplyColumn(t, c, nan_strategy, nan_analysis) ==
    IF c \notin DOMAIN nan_strategy THEN t
    ELSE LET strategy == nan_strategy[c]
             method == Get(strategy, "method", "fill")
         IN  IF method = "fill" THEN fillna(t, c, FillValue(t, c, strategy, nan_analysis))
             ELSE IF method = "drop" THEN dropna_rows(t, c)
             ELSE t

RECURSIVE ApplyColumns(_, _, _, _, _)
ApplyColumns(t, columns, i, nan_strategy, nan_analysis) ==
    IF i > Len(columns) THEN t
    ELSE ApplyColumns(ApplyColumn(t, columns[i], nan_strategy, nan_analysis),
                      columns, i + 1, nan_strategy, nan_analysis)

Failure(kind, cause) == [ok |-> FALSE, error |-> kind, cause |-> cause]

\* nan_strategy is a strategy dict or None.  The result carries the row
\* counts the function logs.
clean_data_with_strategy(t, nan_strategy) ==
    IF IsEmpty(t) THEN Failure("DataProcessingError", "EmptyDataError")
    ELSE
    LET nan_analysis == analyze_nan_values(t)
        strategy == IF nan_strategy = NoStrategy
                    THEN _get_default_nan_strategy(ColumnSet(t), nan_analysis)
                    ELSE nan_strategy
        stepped == ApplyColumns(t, t.columns, 1, strategy, nan_analysis)
        cleaned == drop_duplicates(stepped)
    IN  [ok |-> TRUE,
         table |-> cleaned,
         applied |-> strategy,
         initial_rows |-> Len(t.rows),
         rows_after_steps |-> Len(stepped.rows),
         final_rows |-> Len(cleaned.rows),
         removed_duplicates |-> Len(t.rows) - Len(cleaned.rows)]

\* FlexibleDataProcessor.clean_data
clean_data(t) == clean_data_with_strategy(t, NoStrategy)

-----------------------------------------------------------------------------
(* DataValidator.validate_column_selection and                             *)
(* FlexibleDataProcessor.analyze_data_flexible                             *)

\* The texts pd.to_numeric parses, with their values in hundredths.
NumericText == [s \in {"0", "7"} |-> IF s = "0" THEN 0 ELSE 700]

\* pd.to_numeric(cell, errors='coerce'): a number stays, a text that reads as
\* a number is parsed, any other text becomes missing
to_numeric(cell) ==
    IF IsStr(cell)
    THEN IF cell[2] \in DOMAIN NumericText THEN Num(NumericText[cell[2]]) ELSE NaN
    ELSE cell

\* float(text) of the panel's custom entry; None when it raises ValueError
ParseFloat(text) == IF text \in DOMAIN NumericText THEN Num(NumericText[text]) ELSE None

\* the name of the error validate_column_selection raises, or "ok"
validate_column_selection(t, x_col, y_col) ==
    IF x_col \notin ColumnSet(t) THEN "DataValidationError"
    ELSE IF y_col \notin ColumnSet(t) THEN "DataValidationError"
    ELSE "ok"

RECURSIVE GCD(_, _)
GCD(a, b) == IF b = 0 THEN a ELSE GCD(b, a % b)

Abs(n) == IF n < 0 THEN -n ELSE n

\* An aggregated value: the exact quotient n/d (d > 0) in lowest terms.
Frac(n, d) == LET g == GCD(Abs(n), d) IN <<"frac", n \div g, d \div g>>

FracLess(a, b) == a[2] * b[3] < b[2] * a[3]

\* the column after the coercions and fills that precede the grouping
PrepareMeasure(s, dtype, operation) ==
    LET y_nan_count == isnull_sum(s)
        coerced == IF y_nan_count > 0 /\ ~is_numeric_dtype(dtype)
                   THEN [i \in DOMAIN s |-> to_numeric(s[i])] ELSE s
        dtype1 == IF y_nan_count > 0 THEN "float64" ELSE dtype
        filled == IF y_nan_count > 0 /\ operation \in {"sum", "count"}
                  THEN [i \in DOMAIN s |-> IF coerced[i] = NaN THEN Num(0) ELSE coerced[i]]
                  ELSE coerced
    IN  IF ~is_numeric_dtype(dtype1)
        THEN [i \in DOMAIN s |->
                 IF to_numeric(filled[i]) = NaN THEN Num(0) ELSE to_numeric(filled[i])]
        ELSE filled

\* a category column left with its missing cells
PrepareCategoryAsIs(s) == s

PrepareCategory(s) ==
    IF isnull_sum(s) > 0
    THEN [i \in DOMAIN s |-> IF s[i] = NaN THEN Str("Unknown") ELSE s[i]]
    ELSE s

\* groupby(x_col)[y_col].<operation>() of one group: missing values are
\* skipped; the mean, max and min of no value are missing
Aggregate(values, operation) ==
    LET valid == dropna(values)
        nums == NumValues(valid)
    IN  IF operation = "mean"
        THEN IF Len(valid) = 0 THEN NaN ELSE Frac(SumInts(nums), Len(valid))
        ELSE IF operation = "count" THEN Frac(Len(valid) * 100, 1)
        ELSE IF operation = "max"
        THEN IF Len(valid) = 0 THEN NaN ELSE Frac(SortInts(nums)[Len(valid)], 1)
        ELSE IF operation = "min"
        THEN IF Len(valid) = 0 THEN NaN ELSE Frac(SortInts(nums)[1], 1)
        ELSE Frac(SumInts(nums), 1)

\* the order of group keys: numbers before texts where a column holds both
KeyLess(a, b) == (IsNum(a) /\ IsStr(b)) \/ CellLess(a, b)

\* the group keys in the order groupby yields them (sorted)
RECURSIVE SortKeys(_)
SortKeys(keys) ==
    IF keys = {} THEN <<>>
    ELSE LET k == CHOOSE v \in keys : \A w \in keys \ {v} : KeyLess(v, w)
         IN  <<k>> \o SortKeys(keys \ {k})

\* a before b under sort_values(ascending=False): larger first, missing last
ValueBefore(a, b) ==
    IF a = NaN THEN FALSE
    ELSE IF b = NaN THEN TRUE
    ELSE FracLess(b, a)

RECURSIVE InsertResult(_, _)
InsertResult(sorted, r) ==
    IF sorted = <<>> THEN <<r>>
    ELSE IF ValueBefore(r.value, Head(sorted).value) THEN <<r>> \o sorted
    ELSE <<Head(sorted)>> \o InsertResult(Tail(sorted), r)

\* result.sort_values(y_col, ascending=False): rows of equal value keep the
\* order the grouping gave them
RECURSIVE sort_values(_)
sort_values(rows) ==
    IF rows = <<>> THEN <<>>
    ELSE LET n == Len(rows)
         IN  InsertResult(sort_values(SubSeq(rows, 1, n - 1)), rows[n])

analyze_data_flexible(t, x_col, y_col, operation) ==
    IF validate_column_selection(t, x_col, y_col) # "ok"
    THEN Failure("DataProcessingError", validate_column_selection(t, x_col, y_col))
    ELSE
    LET x == PrepareCategory(Series(t, x_col))
        y == PrepareMeasure(Series(t, y_col), t.dtype[y_col], operation)
        keys == SortKeys({x[i] : i \in DOMAIN x} \ {NaN})
        grouped == [j \in DOMAIN keys |->
                      [key |-> keys[j],
                       value |-> Aggregate(
                           LET idx == SelectSeq([i \in DOMAIN y |-> i], LAMBDA i : x[i] = keys[j])
                           IN  [n \in DOMAIN idx |-> y[idx[n]]],
                           operation)]]
        result == sort_values(grouped)
    IN  IF result = <<>>
        THEN Failure("DataProcessingError", "EmptyDataError")
        ELSE [ok |-> TRUE, table |-> result]

-----------------------------------------------------------------------------
(* FlexibleExcelProcessor: the loaded table and the results of the last    *)
(* processing.                                                             *)

\* None, for a table or a result not there
NoData == [none |-> TRUE]

\* __init__ and reset
NewProcessor == [raw_data |-> NoData, processed_data |-> NoData, analyzed_data |-> NoData]

\* load_data, of a sheet that reads as the table t
load_data(self, t) == [self EXCEPT !.raw_data = t]

\* `if custom_strategy:`: a dict with entries
Truthy(strategy) == strategy # NoStrategy /\ DOMAIN strategy # {}

\* a cleaner that works on the frame it is given: the caller's frame ends as
\* the cleaned one
df_after_cleaning_in_place(t, cleaned) == cleaned.table

\* the frame passed to clean_data_with_strategy, after the call: the cleaner
\* works on df.copy()
df_after_cleaning(t, cleaned) == t

\* process_data: the processor after the call and what the caller gets, the
\* analyzed table or an ExcelProcessorError whose cause is the error caught
process_data(self, x_col, y_col, operation, custom_strategy) ==
    IF self.raw_data = NoData
    THEN [self |-> self, out |-> Failure("ExcelProcessorError", "ExcelProcessorError")]
    ELSE
    LET cleaned == IF Truthy(custom_strategy)
                   THEN clean_data_with_strategy(self.raw_data, custom_strategy)
                   ELSE clean_data(self.raw_data)
    IN  IF ~cleaned.ok
        THEN [self |-> self, out |-> Failure("ExcelProcessorError", cleaned.error)]
        ELSE
        LET with_processed ==
                [self EXCEPT !.raw_data = df_after_cleaning(self.raw_data, cleaned),
                             !.processed_data = cleaned.table]
            analyzed == analyze_data_flexible(cleaned.table, x_col, y_col, operation)
        IN  IF ~analyzed.ok
            THEN [self |-> with_processed,
                  out |-> Failure("ExcelProcessorError", analyzed.error)]
            ELSE [self |-> [with_processed EXCEPT !.analyzed_data = [table |-> analyzed.table]],
                  out |-> analyzed]

-----------------------------------------------------------------------------
(* IntelligentAnalysisDialog: its buttons and the result show() returns.   *)

\* a dialog that offers the proceed button whatever the quality score
ActionButtonsWithProceed(quality_score) == {"proceed", "customize", "cancel", "help"}

\* _create_action_buttons: proceed when the quality score is above 0.5, the
\* warning button otherwise, beside customize, cancel and help
ActionButtons(quality_score) ==
    (IF quality_score > 50 THEN {"proceed"} ELSE {"warning"})
        \cup {"customize", "cancel", "help"}

\* self.result after a button, or after the window is closed ("close"):
\* _on_proceed_clicked, _on_force_proceed with the answer to its confirmation,
\* _on_customize_clicked, _on_cancel_clicked; None when nothing set it
DialogResult(button, confirmed) ==
    IF button = "proceed" THEN "proceed"
    ELSE IF button = "warning" /\ confirmed THEN "force_proceed"
    ELSE IF button = "customize" THEN "customize"
    ELSE IF button = "cancel" THEN "cancel"
    ELSE "None"

\* whether the dialog is destroyed: help and a declined confirmation leave it
DialogCloses(button, confirmed) ==
    button \in {"proceed", "customize", "cancel", "close"} \/ (button = "warning" /\ confirmed)

\* the results on which _show_intelligent_dialog calls _execute_analysis
StartsAnalysis(result) == result \in {"proceed", "force_proceed"}

-----------------------------------------------------------------------------
(* NaNHandlingFrame: the per-column choices of the NaN panel and           *)
(* get_nan_strategy.  A panel row is [method, fill_var, custom_var].       *)

\* _create_column_strategy: the row a column with missing cells starts with
InitialPanelRow(recommendations) ==
    IF TypeIs(recommendations, "numeric")
    THEN [method |-> "auto", fill_var |-> "median", custom_var |-> "0"]
    ELSE [method |-> "auto", fill_var |-> "unknown", custom_var |-> "Unknown"]

\* the value of a fill row (the if/elif chain of get_nan_strategy)
PanelFillValue(row, recommendations) ==
    LET fill_method == row.fill_var
        numeric == TypeIs(recommendations, "numeric")
    IN  IF fill_method = "median" /\ numeric THEN recommendations.suggestions.median
        ELSE IF fill_method = "mean" /\ numeric THEN recommendations.suggestions.mean
        ELSE IF fill_method = "mode"
        THEN IF numeric THEN recommendations.suggestions.mode
             ELSE Get(recommendations, "mode", Str("Unknown"))
        ELSE IF fill_method = "zero" THEN Num(0)
        ELSE IF fill_method = "unknown" THEN Str("Unknown")
        ELSE IF fill_method = "empty" THEN Str("")
        ELSE IF fill_method = "custom"
        THEN IF numeric
             THEN IF ParseFloat(row.custom_var) = None THEN Num(0)
                  ELSE ParseFloat(row.custom_var)
             ELSE Str(row.custom_var)
        ELSE Str("Unknown")

get_nan_strategy(strategy_vars, nan_analysis) ==
    [c \in {k \in DOMAIN strategy_vars : strategy_vars[k].method \in {"auto", "drop", "fill"}} |->
        IF strategy_vars[c].method = "auto" THEN [method |-> "auto"]
        ELSE IF strategy_vars[c].method = "drop" THEN Drop
        ELSE Fill(PanelFillValue(strategy_vars[c],
                      Get(Get(nan_analysis, "recommendations", EmptyDict), c, EmptyDict)))]

\* has_nan_data
has_nan_data(nan_analysis) == DOMAIN Get(nan_analysis, "columns_with_nan", EmptyDict) # {}

\* The cleaning stage of process_data as _execute_analysis calls it: the
\* custom strategy is used when it is a non-empty dict and the panel holds
\* columns with missing cells, the default strategy otherwise.
CleanStage(t, custom_nan_strategy, nan_analysis) ==
    IF custom_nan_strategy # NoStrategy /\ DOMAIN custom_nan_strategy # {}
       /\ has_nan_data(nan_analysis)
    THEN clean_data_with_strategy(t, custom_nan_strategy)
    ELSE clean_data(t)

-----------------------------------------------------------------------------
(* DataQualityAssessment                                                   *)

\* (missing / total) * 100 if total > 0 else 0, unrounded: a quotient <<n, d>>
Percentage(missing, total) == IF total > 0 THEN <<missing * 100, total>> ELSE <<0, 1>>

\* percentage > limit
Above(percentage, limit) == percentage[1] > limit * percentage[2]

OutlierIssues(p) ==
    IF is_numeric_dtype(p.dtype) /\ p.total_count - p.null_count > 0 /\ p.outlier_count > 0
    THEN <<[type |-> "outliers",
            severity |-> IF p.outlier_count <= 5 THEN "medium" ELSE "high",
            count |-> p.outlier_count]>>
    ELSE <<>>

\* the missingness issue decided on the percentage rounded to two decimals
MissingIssuesRounded(p) ==
    LET null_percentage ==
            IF p.total_count > 0 THEN RoundedPercentage(p.null_count, p.total_count) ELSE 0
    IN  IF null_percentage > 5000
        THEN <<[type |-> "high_missing", severity |-> "critical"]>>
        ELSE IF null_percentage > 2000
        THEN <<[type |-> "medium_missing", severity |-> "medium"]>>
        ELSE IF null_percentage > 0
        THEN <<[type |-> "low_missing", severity |-> "low"]>>
        ELSE <<>>

MissingIssues(p) ==
    LET null_percentage == Percentage(p.null_count, p.total_count)
    IN  IF Above(null_percentage, 50)
        THEN <<[type |-> "high_missing", severity |-> "critical"]>>
        ELSE IF Above(null_percentage, 20)
        THEN <<[type |-> "medium_missing", severity |-> "medium"]>>
        ELSE IF Above(null_percentage, 0)
        THEN <<[type |-> "low_missing", severity |-> "low"]>>
        ELSE <<>>

\* _analyze_column of the series with profile p
_analyze_column(p) ==
    [data_type |-> IF is_numeric_dtype(p.dtype) THEN "numeric" ELSE "categorical",
     null_count |-> p.null_count,
     null_percentage |-> IF p.total_count > 0
                         THEN RoundedPercentage(p.null_count, p.total_count) ELSE 0,
     issues |-> OutlierIssues(p) \o MissingIssues(p)]

CountSeverity(issues, severity) ==
    Cardinality({i \in DOMAIN issues : Get(issues[i], "severity", "") = severity})

\* a scorer that charges issues of severity high like those of severity medium
_calculate_quality_score_high(nan_percentage, issues, rows, columns) ==
    LET after_missing ==
            IF Above(nan_percentage, 50) THEN 50
            ELSE IF Above(nan_percentage, 20) THEN 70
            ELSE IF Above(nan_percentage, 5) THEN 90
            ELSE 100
        after_issues == after_missing - CountSeverity(issues, "critical") * 20
                                      - CountSeverity(issues, "medium") * 10
                                      - CountSeverity(issues, "high") * 10
        after_rows == IF rows > 1000 THEN after_issues + 5 ELSE after_issues
        after_columns == IF columns > 5 THEN after_rows + 5 ELSE after_rows
        capped == IF after_columns < 100 THEN after_columns ELSE 100
    IN  IF capped > 0 THEN capped ELSE 0

\* a scorer that returns the score without max(0.0, min(1.0, ...))
_calculate_quality_score_unclamped(nan_percentage, issues, rows, columns) ==
    LET after_missing ==
            IF Above(nan_percentage, 50) THEN 50
            ELSE IF Above(nan_percentage, 20) THEN 70
            ELSE IF Above(nan_percentage, 5) THEN 90
            ELSE 100
        after_issues == after_missing - CountSeverity(issues, "critical") * 20
                                      - CountSeverity(issues, "medium") * 10
        after_rows == IF rows > 1000 THEN after_issues + 5 ELSE after_issues
    IN  IF columns > 5 THEN after_rows + 5 ELSE after_rows

\* The score in hundredths.  nan_percentage is the dataset's unrounded missing
\* percentage, rows and columns are len(df) and len(df.columns).
_calculate_quality_score(nan_percentage, issues, rows, columns) ==
    LET base == 100
        after_missing ==
            IF Above(nan_percentage, 50) THEN base - 50
            ELSE IF Above(nan_percentage, 20) THEN base - 30
            ELSE IF Above(nan_percentage, 5) THEN base - 10
            ELSE base
        after_issues == after_missing - CountSeverity(issues, "critical") * 20
                                      - CountSeverity(issues, "medium") * 10
        after_rows == IF rows > 1000 THEN after_issues + 5 ELSE after_issues
        after_columns == IF columns > 5 THEN after_rows + 5 ELSE after_rows
        capped == IF after_columns < 100 THEN after_columns ELSE 100
    IN  IF capped > 0 THEN capped ELSE 0

RECURSIVE Concat(_)
Concat(seqs) == IF seqs = <<>> THEN <<>> ELSE Head(seqs) \o Concat(Tail(seqs))

\* assess_data_quality of a table of total_rows rows whose columns, in their
\* order, have the profiles given
AssessColumns(profiles, total_rows) ==
    LET total_cells == total_rows * Len(profiles)
        total_nan == SumInts([i \in DOMAIN profiles |-> profiles[i].null_count])
        nan_percentage == Percentage(total_nan, total_cells)
        column_analysis == [i \in DOMAIN profiles |-> _analyze_column(profiles[i])]
        overall_issues == Concat([i \in DOMAIN profiles |-> column_analysis[i].issues])
    IN  [quality_score |-> _calculate_quality_score(nan_percentage, overall_issues,
                                                    total_rows, Len(profiles)),
         total_rows |-> total_rows,
         total_columns |-> Len(profiles),
         total_nan_cells |-> total_nan,
         nan_percentage |-> RoundHalfEven(nan_percentage[1] * 100, nan_percentage[2]),
         column_analysis |-> column_analysis,
         overall_issues |-> overall_issues]

assess_data_quality(t) ==
    AssessColumns([i \in DOMAIN t.columns |-> Profile(Series(t, t.columns[i]), t.dtype[t.columns[i]])],
                  Len(t.rows))

\* FlexibleExcelProcessor.preview_analysis: the processor after the call and
\* the quality score of the assessment of raw_data
preview_analysis(self, x_col, y_col, operation) ==
    IF self.raw_data = NoData
    THEN [self |-> self, out |-> Failure("ExcelProcessorError", "ExcelProcessorError")]
    ELSE [self |-> self,
          out |-> [ok |-> TRUE,
                   quality_score |-> assess_data_quality(self.raw_data).quality_score]]

-----------------------------------------------------------------------------
(* The tables the operations are applied to.                               *)

Columns == <<"Region", "Sales">>

RegionCells == {NaN, Str("a"), Str("b")}
SalesCells == {NaN, Num(1000), Num(2000), Str("x")}

\* a table as read from a sheet: every column has its inferred dtype
MakeTable(rows) ==
    [columns |-> Columns,
     rows |-> rows,
     dtype |-> [c \in {"Region", "Sales"} |-> InferDtype([i \in DOMAIN rows |-> rows[i][c]])]]

\* every table of at most MaxRows rows
SmallTables ==
    {MakeTable(rows) : rows \in UNION {[1..n -> [Region : RegionCells, Sales : SalesCells]] : n \in 0..MaxRows}}

\* Ten-row tables: regions a and b in turn, sales of 10, 20 and 30, with up to
\* two missing regions, up to one missing sale and possibly one sale typed as
\* text.
ScenarioTable(missing_regions, missing_sales, text) ==
    MakeTable([i \in 1..10 |->
        [Region |-> IF i \in missing_regions THEN NaN
                    ELSE IF i % 2 = 1 THEN Str("a") ELSE Str("b"),
         Sales |-> IF i \in missing_sales THEN NaN
                   ELSE IF i = 6 /\ text # "" THEN Str(text)
                   ELSE Num(1000 * ((i % 3) + 1))]])

ScenarioTables ==
    {ScenarioTable(r, m, text) :
        r \in {{}, {1}, {10}, {1, 4}},
        m \in {{}, {2}, {4}},
        text \in {"", "7", "x"}}

RawTables == SmallTables \cup ScenarioTables

NoCall == [op |-> "none"]
NoTable == MakeTable(<<>>)

-----------------------------------------------------------------------------
(* Spec: one operation of the engine applied to a loaded table.  Each       *)
(* behaviour draws a table and applies one operation to it.                *)

Init ==
    /\ status = NoCall
    /\ threads = NoCall
    /\ posted = NoCall
    /\ df \in RawTables
    /\ last = NoCall
    /\ col = NoCall
    /\ colOut = NoCall
    /\ scoreIn = NoCall
    /\ scoreOut = NoCall
    /\ processor = NoCall
    /\ gui = NoCall

\* clean_data(df): cleaning under the default strategy
CleanDefault ==
    /\ last = NoCall
    /\ last' = [op |-> "clean_default", out |-> clean_data(df)]
    /\ UNCHANGED <<status, threads, posted, df, col, colOut, scoreIn, scoreOut, processor, gui>>

\* The rows the panel can show for a column: the method radio, and under
\* fill the sub-option of the column's type with, under custom, the entry's
\* text; what is not selected keeps its initial value.
PanelRows(recommendations) ==
    LET numeric == TypeIs(recommendations, "numeric")
        initial == InitialPanelRow(recommendations)
        fill_vars == IF numeric THEN {"median", "mean", "mode", "zero"}
                     ELSE {"mode", "unknown", "empty"}
        custom_vars == IF numeric THEN {"0", "7", "x"} ELSE {"Unknown", "x"}
    IN  {initial, [initial EXCEPT !.method = "drop"]}
        \cup {[initial EXCEPT !.method = "fill", !.fill_var = f] : f \in fill_vars}
        \cup {[method |-> "fill", fill_var |-> "custom", custom_var |-> v] : v \in custom_vars}

\* The user sets the panel's rows and runs the analysis: the cleaning stage
\* runs with the strategy get_nan_strategy returns.
CleanCustom ==
    /\ last = NoCall
    /\ Len(df.rows) <= MaxPanelRows \/ df \in ScenarioTables
    /\ LET nan_analysis == analyze_nan_values(df)
           with_nan == DOMAIN Get(nan_analysis, "columns_with_nan", EmptyDict)
           rows == [c \in with_nan |-> PanelRows(nan_analysis.recommendations[c])]
       IN  /\ with_nan # {}
           /\ \E panel \in [with_nan -> UNION {rows[c] : c \in with_nan}] :
                /\ \A c \in with_nan : panel[c] \in rows[c]
                /\ LET strategy == get_nan_strategy(panel, nan_analysis)
                   IN  last' = [op |-> "clean_custom",
                                panel |-> panel,
                                strategy |-> strategy,
                                out |-> CleanStage(df, strategy, nan_analysis)]
    /\ UNCHANGED <<status, threads, posted, df, col, colOut, scoreIn, scoreOut, processor, gui>>

Operations == {"sum", "mean", "count", "max", "min"}

\* analyze_data_flexible(df, x_col, y_col, operation)
Analyze ==
    /\ last = NoCall
    /\ \E x_col \in {"Region", "Nope"}, y_col \in {"Sales", "Nope"}, operation \in Operations :
          /\ x_col = "Nope" \/ y_col = "Nope" => operation = "sum"
          /\ last' = [op |-> "analyze", x_col |-> x_col, y_col |-> y_col, operation |-> operation,
                      out |-> analyze_data_flexible(df, x_col, y_col, operation)]
    /\ UNCHANGED <<status, threads, posted, df, col, colOut, scoreIn, scoreOut, processor, gui>>

\* process_data(x_col, y_col, operation) on a processor that has loaded df,
\* without a custom strategy
Process ==
    /\ last = NoCall
    /\ \E operation \in Operations :
       \E call \in {process_data(load_data(NewProcessor, df), "Region", "Sales",
                                 operation, NoStrategy)} :
          last' = [op |-> "process", x_col |-> "Region", y_col |-> "Sales",
                   operation |-> operation,
                   self |-> call.self,
                   out |-> call.out]
    /\ UNCHANGED <<status, threads, posted, df, col, colOut, scoreIn, scoreOut, processor, gui>>

\* assess_data_quality(df)
Assess ==
    /\ last = NoCall
    /\ last' = [op |-> "assess", out |-> assess_data_quality(df)]
    /\ UNCHANGED <<status, threads, posted, df, col, colOut, scoreIn, scoreOut, processor, gui>>

Next == CleanDefault \/ CleanCustom \/ Analyze \/ Process \/ Assess

Spec == Init /\ [][Next]_vars

-----------------------------------------------------------------------------
(* SpecBands: the analysers applied to one column, given by its profile.   *)
(* Profiles of very long columns stand for the tables no enumeration of    *)
(* cells reaches.                                                          *)

LongColumns == {10001, 20001}

\* the missing counts tried on a long column: around each threshold
LongMissing(n) == {0, 1, n \div 5, n \div 5 + 1, n \div 2, n \div 2 + 1, n}

SampleNumericStats ==
    [mean |-> Num(1234), median |-> Num(1500), mode |-> Num(1000),
     min |-> Num(1000), max |-> Num(2000)]

ProfilesOf(n, k) ==
    LET valid == n - k
    IN  {[total_count |-> n, null_count |-> k, dtype |-> "float64",
          stats |-> IF valid > 0 THEN SampleNumericStats ELSE EmptyDict,
          outlier_count |-> o] :
            o \in {j \in 0..MaxOutliers : j <= 2 * ((valid - 1) \div 4)} \cup {0}}
        \cup
        {[total_count |-> n, null_count |-> k, dtype |-> "object",
          stats |-> IF valid > 0 THEN [mode |-> Str("a"), unique |-> u] ELSE EmptyDict,
          outlier_count |-> 0] :
            u \in {j \in {1, 25} : j <= valid} \cup {IF valid > 0 THEN 1 ELSE 0}}

ColumnProfiles ==
    UNION {UNION {ProfilesOf(n, k) : k \in 0..n} : n \in 0..MaxProfileRows}
    \cup UNION {UNION {ProfilesOf(n, k) : k \in LongMissing(n)} : n \in LongColumns}

InitBands ==
    /\ status = NoCall
    /\ threads = NoCall
    /\ posted = NoCall
    /\ col \in ColumnProfiles
    /\ colOut = NoCall
    /\ df = NoTable
    /\ last = NoCall
    /\ scoreIn = NoCall
    /\ scoreOut = NoCall
    /\ processor = NoCall
    /\ gui = NoCall

\* analyze_nan_values and _get_default_nan_strategy on the one-column table
AnalyzeNan ==
    /\ colOut = NoCall
    /\ LET nan_analysis == NanAnalysis([c \in {"col"} |-> col], col.total_count)
       IN  colOut' = [op |-> "nan",
                      nan_analysis |-> nan_analysis,
                      strategy |-> _get_default_nan_strategy({"col"}, nan_analysis)]
    /\ UNCHANGED <<status, threads, posted, df, last, col, scoreIn, scoreOut, processor, gui>>

\* _analyze_column on the column
AnalyzeColumn ==
    /\ colOut = NoCall
    /\ colOut' = [op |-> "column", analysis |-> _analyze_column(col)]
    /\ UNCHANGED <<status, threads, posted, df, last, col, scoreIn, scoreOut, processor, gui>>

NextBands == AnalyzeNan \/ AnalyzeColumn

SpecBands == InitBands /\ [][NextBands]_vars

-----------------------------------------------------------------------------
(* SpecScore: the scorer on the arguments drawn, and the assessment of a   *)
(* table given by its number of rows and the profiles of its columns.      *)

Repeat(issue, n) == [i \in 1..n |-> issue]

ScoreInputs ==
    {[kind |-> "arguments",
      nan_percentage |-> Percentage(missing, 100),
      issues |-> Repeat([type |-> "high_missing", severity |-> "critical"], critical)
                 \o Repeat([type |-> "outliers", severity |-> "medium"], medium)
                 \o Repeat([type |-> "outliers", severity |-> "high"], high)
                 \o Repeat([type |-> "low_missing", severity |-> "low"], low),
      rows |-> rows,
      columns |-> columns] :
        missing \in {0, 5, 6, 20, 21, 50, 51, 100},
        critical \in 0..MaxIssues, medium \in 0..MaxIssues,
        high \in 0..1, low \in 0..1,
        rows \in {1000, 1001, 1500}, columns \in {5, 6}}

\* the columns of a table of n rows: complete ones, with or without outliers,
\* and ones missing three tenths or six tenths of their cells
ShapeColumns(n) ==
    {[total_count |-> n, null_count |-> (n * tenths) \div 10, dtype |-> "float64",
      stats |-> SampleNumericStats, outlier_count |-> 0] : tenths \in {0, 3, 6}}
    \cup {[total_count |-> n, null_count |-> 0, dtype |-> "float64",
           stats |-> SampleNumericStats, outlier_count |-> 3]}

ShapesOf(n) ==
    {[kind |-> "table", total_rows |-> n, profiles |-> profiles] :
        profiles \in UNION {[1..m -> ShapeColumns(n)] : m \in 1..MaxColumns}}

TableShapes == ShapesOf(1000) \cup ShapesOf(1010)

InitScore ==
    /\ status = NoCall
    /\ threads = NoCall
    /\ posted = NoCall
    /\ scoreIn \in ScoreInputs \cup TableShapes
    /\ scoreOut = NoCall
    /\ df = NoTable
    /\ last = NoCall
    /\ col = NoCall
    /\ colOut = NoCall
    /\ processor = NoCall
    /\ gui = NoCall

\* _calculate_quality_score(nan_percentage, issues, df)
Score ==
    /\ scoreOut = NoCall
    /\ scoreIn.kind = "arguments"
    /\ scoreOut' = [op |-> "score",
                    quality_score |-> _calculate_quality_score(
                        scoreIn.nan_percentage, scoreIn.issues, scoreIn.rows, scoreIn.columns)]
    /\ UNCHANGED <<status, threads, posted, df, last, col, colOut, scoreIn, processor, gui>>

\* assess_data_quality(df)
AssessTable ==
    /\ scoreOut = NoCall
    /\ scoreIn.kind = "table"
    /\ scoreOut' = [op |-> "assess", out |-> AssessColumns(scoreIn.profiles, scoreIn.total_rows)]
    /\ UNCHANGED <<status, threads, posted, df, last, col, colOut, scoreIn, processor, gui>>

NextScore == Score \/ AssessTable

SpecScore == InitScore /\ [][NextScore]_vars

-----------------------------------------------------------------------------
(* SpecClean: clean_data_with_strategy under any strategy dict, or none.   *)

\* the entries of a strategy dict: keep, drop, fill with a literal, and fill
\* without a value
StrategyEntries == {Keep, Drop, Fill(Num(0)), Fill(Str("Unknown")), [method |-> "fill"]}

\* the strategy dicts over the table's columns, the empty one included
Strategies == UNION {[cs -> StrategyEntries] : cs \in SUBSET {"Region", "Sales"}}

\* the table before the column loop (index 0) and after each of its passes
ColumnSteps(t, nan_strategy, nan_analysis) ==
    [i \in 0..Len(t.columns) |->
        ApplyColumns(t, SubSeq(t.columns, 1, i), 1, nan_strategy, nan_analysis)]

\* clean_data_with_strategy(df, nan_strategy), with the tables of its column
\* loop
CleanWith ==
    /\ last = NoCall
    /\ \E nan_strategy \in Strategies \cup {NoStrategy} :
          LET out == clean_data_with_strategy(df, nan_strategy)
          IN  last' = [op |-> "clean_with",
                       nan_strategy |-> nan_strategy,
                       steps |-> IF out.ok
                                 THEN ColumnSteps(df, out.applied, analyze_nan_values(df))
                                 ELSE <<>>,
                       out |-> out]
    /\ UNCHANGED <<status, threads, posted, df, col, colOut, scoreIn, scoreOut, processor, gui>>

NextClean == CleanWith

SpecClean == Init /\ [][NextClean]_vars

-----------------------------------------------------------------------------
(* SpecSession: a session of the application.  The user loads files,       *)
(* analyses missing values in the NaN panel, clicks method radios, runs    *)
(* analyses and resets; process_data is also called directly.  An analysis *)
(* run is taken as one step.                                               *)

Row(region, sales) == [Region |-> region, Sales |-> sales]

EmptySheet == MakeTable(<<>>)
FileA == MakeTable(<<Row(Str("a"), Num(1000)), Row(NaN, NaN)>>)
FileB == MakeTable(<<Row(Str("b"), Num(2000)), Row(Str("b"), NaN)>>)
FileC == MakeTable(<<Row(Str("a"), Num(1000)), Row(Str("b"), Num(2000))>>)

FileD == MakeTable(<<Row(NaN, Num(1000))>>)

SessionTables == {EmptySheet, FileA, FileB, FileC, FileD}

SessionOperations == {"sum", "mean"}

\* NaNHandlingFrame.__init__ and reset.  analysed is the table nan_analysis
\* was computed from.
NewPanel ==
    [current_data |-> NoData, nan_analysis |-> EmptyDict, strategy_vars |-> EmptyDict,
     analysed |-> NoData]

\* ExcelProcessorGUI.__init__.  strategy_source is the table whose analysis
\* custom_nan_strategy was built from; dialog is the AI dialog while it is
\* open; steps counts the user's actions.
NewGui ==
    [current_data |-> NoData, analysis_result |-> NoData, custom_nan_strategy |-> NoStrategy,
     strategy_source |-> NoData, panel |-> NewPanel, dialog |-> NoData, steps |-> 0]

InitSession ==
    /\ status = NoCall
    /\ threads = NoCall
    /\ posted = NoCall
    /\ processor = NewProcessor
    /\ gui = NewGui
    /\ last = NoCall
    /\ df = NoTable
    /\ col = NoCall
    /\ colOut = NoCall
    /\ scoreIn = NoCall
    /\ scoreOut = NoCall

\* _on_file_selected, the file reading as the table t
LoadFile ==
    /\ gui.steps < MaxSteps
    /\ gui.dialog = NoData
    /\ \E t \in SessionTables :
          /\ processor' = load_data(processor, t)
          /\ gui' = [gui EXCEPT !.current_data = t,
                                !.panel.current_data = t,
                                !.steps = @ + 1]
          /\ last' = [op |-> "load", table |-> t]
    /\ UNCHANGED <<status, threads, posted, df, col, colOut, scoreIn, scoreOut>>

\* NaNHandlingFrame._analyze_nan and _display_analysis_results
AnalyzeNanPanel ==
    /\ gui.steps < MaxSteps
    /\ gui.dialog = NoData
    /\ gui.panel.current_data # NoData
    /\ LET nan_analysis == analyze_nan_values(gui.panel.current_data)
           with_nan == DOMAIN Get(nan_analysis, "columns_with_nan", EmptyDict)
       IN  gui' = [gui EXCEPT
                      !.panel.nan_analysis = nan_analysis,
                      !.panel.analysed = gui.panel.current_data,
                      !.panel.strategy_vars =
                          IF with_nan = {} THEN @
                          ELSE [c \in with_nan |->
                                   InitialPanelRow(nan_analysis.recommendations[c])],
                      !.steps = @ + 1]
    /\ last' = [op |-> "analyze_nan"]
    /\ UNCHANGED <<status, threads, posted, df, col, colOut, scoreIn, scoreOut, processor>>

\* a click on a method radio of column c: _on_strategy_change and, through
\* the callback, _on_nan_strategy_changed
ClickMethod ==
    /\ gui.steps < MaxSteps
    /\ gui.dialog = NoData
    /\ \E c \in DOMAIN gui.panel.strategy_vars, method \in {"auto", "drop", "fill"} :
          LET strategy_vars == [gui.panel.strategy_vars EXCEPT ![c].method = method]
          IN  gui' = [gui EXCEPT
                         !.panel.strategy_vars = strategy_vars,
                         !.custom_nan_strategy =
                             get_nan_strategy(strategy_vars, gui.panel.nan_analysis),
                         !.strategy_source = gui.panel.analysed,
                         !.steps = @ + 1]
    /\ last' = [op |-> "click"]
    /\ UNCHANGED <<status, threads, posted, df, col, colOut, scoreIn, scoreOut, processor>>

\* the recommendation the panel holds for column c
PanelRecommendation(c) ==
    Get(Get(gui.panel.nan_analysis, "recommendations", EmptyDict), c, EmptyDict)

\* the fill sub-options offered for a column
FillOptions(recommendations) ==
    IF TypeIs(recommendations, "numeric")
    THEN {"median", "mean", "mode", "zero", "custom"}
    ELSE {"mode", "unknown", "empty", "custom"}

\* the texts typed into a custom entry
CustomTexts == {"7", "x"}

\* a click on a fill sub-option radio of column c, shown while the method of
\* the column is fill: the radio sets fill_var and has no command
SelectFill ==
    /\ gui.steps < MaxSteps
    /\ gui.dialog = NoData
    /\ \E c \in DOMAIN gui.panel.strategy_vars :
          /\ gui.panel.strategy_vars[c].method = "fill"
          /\ \E option \in FillOptions(PanelRecommendation(c)) :
                gui' = [gui EXCEPT !.panel.strategy_vars[c].fill_var = option,
                                   !.steps = @ + 1]
    /\ last' = [op |-> "select_fill"]
    /\ UNCHANGED <<status, threads, posted, df, col, colOut, scoreIn, scoreOut, processor>>

\* a text typed into the custom entry of column c: the entry sets custom_var
EditCustom ==
    /\ gui.steps < MaxSteps
    /\ gui.dialog = NoData
    /\ \E c \in DOMAIN gui.panel.strategy_vars :
          /\ gui.panel.strategy_vars[c].method = "fill"
          /\ \E text \in CustomTexts :
                gui' = [gui EXCEPT !.panel.strategy_vars[c].custom_var = text,
                                   !.steps = @ + 1]
    /\ last' = [op |-> "edit_custom"]
    /\ UNCHANGED <<status, threads, posted, df, col, colOut, scoreIn, scoreOut, processor>>

\* the rows after a global button: _apply_auto_strategy, _apply_drop_strategy
\* (confirmed), _apply_zero_strategy and _apply_unknown_strategy
GlobalRows(strategy_vars, button) ==
    [c \in DOMAIN strategy_vars |->
        IF button \in {"auto", "drop"} THEN [strategy_vars[c] EXCEPT !.method = button]
        ELSE IF button = "zero" /\ TypeIs(PanelRecommendation(c), "numeric")
        THEN [strategy_vars[c] EXCEPT !.method = "fill", !.fill_var = "zero"]
        ELSE IF button = "unknown" /\ ~TypeIs(PanelRecommendation(c), "numeric")
        THEN [strategy_vars[c] EXCEPT !.method = "fill", !.fill_var = "unknown"]
        ELSE strategy_vars[c]]

\* the columns for which a global button calls _on_strategy_change
GlobalChanged(strategy_vars, button) ==
    {c \in DOMAIN strategy_vars :
        \/ button \in {"auto", "drop"}
        \/ button = "zero" /\ TypeIs(PanelRecommendation(c), "numeric")
        \/ button = "unknown" /\ ~TypeIs(PanelRecommendation(c), "numeric")}

\* a press on one of the global buttons of the panel, shown with the rows
PressGlobal ==
    /\ gui.steps < MaxSteps
    /\ gui.dialog = NoData
    /\ DOMAIN gui.panel.strategy_vars # {}
    /\ \E button \in {"auto", "drop", "zero", "unknown"} :
          LET strategy_vars == GlobalRows(gui.panel.strategy_vars, button)
              called == GlobalChanged(gui.panel.strategy_vars, button) # {}
          IN  gui' = [gui EXCEPT
                         !.panel.strategy_vars = strategy_vars,
                         !.custom_nan_strategy =
                             IF called
                             THEN get_nan_strategy(strategy_vars, gui.panel.nan_analysis)
                             ELSE @,
                         !.strategy_source = IF called THEN gui.panel.analysed ELSE @,
                         !.steps = @ + 1]
    /\ last' = [op |-> "press_global"]
    /\ UNCHANGED <<status, threads, posted, df, col, colOut, scoreIn, scoreOut, processor>>

\* _run_intelligent_analysis: preview_analysis of the configuration chosen,
\* then _show_intelligent_dialog opens the dialog on the preview
Preview ==
    /\ gui.steps < MaxSteps
    /\ gui.dialog = NoData
    /\ processor.raw_data # NoData
    /\ \E operation \in SessionOperations :
       \E preview \in {preview_analysis(processor, "Region", "Sales", operation)} :
          /\ processor' = preview.self
          /\ gui' = [gui EXCEPT !.dialog = [quality_score |-> preview.out.quality_score,
                                            operation |-> operation]]
          /\ last' = [op |-> "preview", operation |-> operation, before |-> processor]
    /\ UNCHANGED <<status, threads, posted, df, col, colOut, scoreIn, scoreOut>>

\* the dialog closed without a result that starts the analysis, or left open
\* by a declined confirmation: _show_intelligent_dialog starts nothing
DismissDialog ==
    /\ gui.dialog # NoData
    /\ \E button \in ActionButtons(gui.dialog.quality_score) \cup {"close"},
          confirmed \in BOOLEAN :
          /\ ~StartsAnalysis(DialogResult(button, confirmed))
          /\ gui' = [gui EXCEPT !.dialog = IF DialogCloses(button, confirmed)
                                           THEN NoData ELSE @]
          /\ last' = [op |-> "dialog", button |-> button,
                      result |-> DialogResult(button, confirmed),
                      before |-> processor]
    /\ UNCHANGED <<status, threads, posted, df, col, colOut, scoreIn, scoreOut, processor>>

\* the dialog closed with a result that starts the analysis: _execute_analysis
\* with the configuration of the preview
RunAnalysis ==
    /\ gui.steps < MaxSteps
    /\ gui.dialog # NoData
    /\ \E button \in ActionButtons(gui.dialog.quality_score) \cup {"close"},
          confirmed \in BOOLEAN :
       \E nan_strategy \in
              {IF Truthy(gui.custom_nan_strategy) /\ has_nan_data(gui.panel.nan_analysis)
               THEN gui.custom_nan_strategy ELSE NoStrategy} :
       \E call \in {process_data(processor, "Region", "Sales", gui.dialog.operation,
                                 nan_strategy)} :
          /\ StartsAnalysis(DialogResult(button, confirmed))
          /\ processor' = call.self
          /\ gui' = [gui EXCEPT
                        !.analysis_result =
                            IF call.out.ok THEN [table |-> call.out.table] ELSE @,
                        !.dialog = NoData,
                        !.steps = @ + 1]
          /\ last' = [op |-> "run", x_col |-> "Region", y_col |-> "Sales",
                      operation |-> gui.dialog.operation,
                      button |-> button,
                      result |-> DialogResult(button, confirmed),
                      quality_score |-> gui.dialog.quality_score,
                      nan_strategy |-> nan_strategy,
                      strategy_source |-> gui.strategy_source,
                      before |-> processor,
                      out |-> call.out]
    /\ UNCHANGED <<status, threads, posted, df, col, colOut, scoreIn, scoreOut>>

\* process_data(x_col, y_col) called on the processor as it stands
ProcessData ==
    /\ gui.steps < MaxSteps
    /\ gui.dialog = NoData
    /\ \E x_col \in {"Region", "Nope"} :
       \E call \in {process_data(processor, x_col, "Sales", "sum", NoStrategy)} :
          /\ processor' = call.self
          /\ last' = [op |-> "process_data", x_col |-> x_col, y_col |-> "Sales",
                      operation |-> "sum",
                      nan_strategy |-> NoStrategy,
                      before |-> processor,
                      out |-> call.out]
    /\ gui' = [gui EXCEPT !.steps = @ + 1]
    /\ UNCHANGED <<status, threads, posted, df, col, colOut, scoreIn, scoreOut>>

\* _reset_application, confirmed
Reset ==
    /\ gui.steps < MaxSteps
    /\ gui.dialog = NoData
    /\ processor' = NewProcessor
    /\ gui' = [NewGui EXCEPT !.steps = gui.steps + 1]
    /\ last' = [op |-> "reset"]
    /\ UNCHANGED <<status, threads, posted, df, col, colOut, scoreIn, scoreOut>>

NextSession ==
    \/ LoadFile
    \/ AnalyzeNanPanel
    \/ ClickMethod
    \/ SelectFill
    \/ EditCustom
    \/ PressGlobal
    \/ Preview
    \/ DismissDialog
    \/ RunAnalysis
    \/ ProcessData
    \/ Reset

SpecSession == InitSession /\ [][NextSession]_vars

-----------------------------------------------------------------------------
(* The analysis worker threads of the GUI.  _execute_analysis starts a      *)
(* thread running analysis_task; the thread works on the processor and on   *)
(* the GUI's fields while the Tk main loop goes on handling the user's      *)
(* actions, and it reports through a callback posted with root.after.  A    *)
(* thread switch can happen between any two reads or writes of a shared     *)
(* field, so each action below is one such read or write with the           *)
(* computation on local values that follows it.                             *)

Workers == 1..MaxWorkers

ThreadTables == {EmptySheet, FileB, FileC}

\* a thread not started: its position, the operation of its config, and its
\* local values: the strategy it read, the frame it cleaned (raw), the value
\* of the cleaning call, the value of the aggregation call, the value it
\* stored in analyzed_data, the error it caught, and the handler of the GUI
\* that reported its outcome
NoThread ==
    [pc |-> "idle", operation |-> "", nan_strategy |-> NoStrategy, raw |-> NoData,
     df_cleaned |-> NoData, df_grouped |-> NoData, stored |-> NoData, cause |-> "",
     reported |-> "none"]

InitThreads ==
    /\ processor = NewProcessor
    /\ gui = NewGui
    /\ status = "ready"
    /\ threads = [w \in Workers |-> NoThread]
    /\ posted = <<>>
    /\ last = NoCall
    /\ df = NoTable
    /\ col = NoCall
    /\ colOut = NoCall
    /\ scoreIn = NoCall
    /\ scoreOut = NoCall

\* _on_file_selected on the main loop, the file reading as the table t
SelectFile ==
    /\ gui.steps < MaxSteps
    /\ \E t \in ThreadTables :
          /\ processor' = load_data(processor, t)
          /\ gui' = [gui EXCEPT !.current_data = t,
                                !.panel.current_data = t,
                                !.steps = @ + 1]
          /\ last' = [op |-> "load", table |-> t]
    /\ status' = "success"
    /\ UNCHANGED <<threads, posted, df, col, colOut, scoreIn, scoreOut>>

\* _execute_analysis on the main loop: the status bar shows "working" and
\* the thread w starts with the config's operation
ExecuteAnalysis ==
    /\ gui.steps < MaxSteps
    /\ gui.current_data # NoData
    /\ \E w \in Workers, operation \in SessionOperations :
          /\ threads[w].pc = "idle"
          /\ \A v \in Workers : v < w => threads[v].pc # "idle"
          /\ threads' = [threads EXCEPT ![w].pc = "started",
                                        ![w].operation = operation]
    /\ status' = "working"
    /\ gui' = [gui EXCEPT !.steps = @ + 1]
    /\ last' = [op |-> "execute"]
    /\ UNCHANGED <<processor, posted, df, col, colOut, scoreIn, scoreOut>>

\* the except clause of analysis_task: the callback of _on_analysis_error is
\* posted while the thread is still inside the clause
Caught(w, cause) ==
    /\ threads' = [threads EXCEPT ![w].pc = "in_except", ![w].cause = cause]
    /\ posted' = Append(posted, [handler |-> "_on_analysis_error", thread |-> w])

\* analysis_task reads the strategy, process_data reads raw_data and calls
\* the cleaner on it
TaskClean(w) ==
    /\ threads[w].pc = "started"
    /\ LET nan_strategy ==
               IF Truthy(gui.custom_nan_strategy) /\ has_nan_data(gui.panel.nan_analysis)
               THEN gui.custom_nan_strategy
               ELSE NoStrategy
       IN  IF processor.raw_data = NoData
           THEN Caught(w, "ExcelProcessorError")
           ELSE \E cleaned \in {IF Truthy(nan_strategy)
                                THEN clean_data_with_strategy(processor.raw_data,
                                                              nan_strategy)
                                ELSE clean_data(processor.raw_data)} :
                   IF ~cleaned.ok
                   THEN Caught(w, cleaned.error)
                   ELSE /\ threads' = [threads EXCEPT
                                          ![w].pc = "cleaned",
                                          ![w].nan_strategy = nan_strategy,
                                          ![w].raw = processor.raw_data,
                                          ![w].df_cleaned = cleaned.table]
                        /\ posted' = posted
    /\ UNCHANGED <<processor, gui, status, last, df, col, colOut, scoreIn, scoreOut>>

\* process_data stores the value of the cleaning call in processed_data
TaskStoreProcessed(w) ==
    /\ threads[w].pc = "cleaned"
    /\ processor' = [processor EXCEPT !.processed_data = threads[w].df_cleaned]
    /\ threads' = [threads EXCEPT ![w].pc = "stored_processed"]
    /\ UNCHANGED <<gui, status, posted, last, df, col, colOut, scoreIn, scoreOut>>

\* process_data reads processed_data and calls analyze_data_flexible on it
TaskAnalyze(w) ==
    /\ threads[w].pc = "stored_processed"
    /\ IF processor.processed_data = NoData
       THEN Caught(w, "DataProcessingError")
       ELSE \E analyzed \in {analyze_data_flexible(processor.processed_data, "Region",
                                                   "Sales", threads[w].operation)} :
               IF ~analyzed.ok
               THEN Caught(w, analyzed.error)
               ELSE /\ threads' = [threads EXCEPT
                                      ![w].pc = "analyzed",
                                      ![w].df_grouped = [table |-> analyzed.table]]
                    /\ posted' = posted
    /\ UNCHANGED <<processor, gui, status, last, df, col, colOut, scoreIn, scoreOut>>

\* process_data stores the value of the aggregation call in analyzed_data
TaskStoreAnalyzed(w) ==
    /\ threads[w].pc = "analyzed"
    /\ processor' = [processor EXCEPT !.analyzed_data = threads[w].df_grouped]
    /\ threads' = [threads EXCEPT ![w].pc = "stored_analyzed",
                                  ![w].stored = threads[w].df_grouped]
    /\ UNCHANGED <<gui, status, posted, last, df, col, colOut, scoreIn, scoreOut>>

\* `return self.analyzed_data` and the assignment of the returned value to
\* the GUI's analysis_result
TaskReturn(w) ==
    /\ threads[w].pc = "stored_analyzed"
    /\ gui' = [gui EXCEPT !.analysis_result = processor.analyzed_data]
    /\ threads' = [threads EXCEPT ![w].pc = "returned"]
    /\ UNCHANGED <<processor, status, posted, last, df, col, colOut, scoreIn, scoreOut>>

\* save_processed_data, then the callback of _on_analysis_complete is posted
TaskSave(w) ==
    /\ threads[w].pc = "returned"
    /\ IF processor.analyzed_data = NoData
       THEN Caught(w, "ExcelProcessorError")
       ELSE /\ threads' = [threads EXCEPT ![w].pc = "done"]
            /\ posted' = Append(posted, [handler |-> "_on_analysis_complete",
                                         thread |-> w])
    /\ UNCHANGED <<processor, gui, status, last, df, col, colOut, scoreIn, scoreOut>>

\* the thread leaves the except clause: the name e is unbound and the
\* thread ends
TaskLeaveExcept(w) ==
    /\ threads[w].pc = "in_except"
    /\ threads' = [threads EXCEPT ![w].pc = "done"]
    /\ UNCHANGED <<processor, gui, status, posted, last, df, col, colOut, scoreIn,
                   scoreOut>>

\* the main loop runs the oldest posted callback.  `lambda:
\* self._on_analysis_error(str(e))` reads e of analysis_task when it runs:
\* while the thread is inside the except clause the handler gets the cause;
\* once the thread has left the clause e is unbound, the lambda raises
\* NameError and no handler runs.
RunCallback ==
    /\ posted # <<>>
    /\ LET w == Head(posted).thread
       IN  IF Head(posted).handler = "_on_analysis_complete"
           THEN /\ status' = "success"
                /\ threads' = [threads EXCEPT ![w].reported = "_on_analysis_complete"]
           ELSE IF threads[w].pc = "in_except"
                THEN /\ status' = "error"
                     /\ threads' = [threads EXCEPT ![w].reported = "_on_analysis_error"]
                ELSE /\ status' = status
                     /\ threads' = [threads EXCEPT ![w].reported = "NameError"]
    /\ posted' = Tail(posted)
    /\ UNCHANGED <<processor, gui, last, df, col, colOut, scoreIn, scoreOut>>

\* _reset_application on the main loop, confirmed
ResetApplication ==
    /\ gui.steps < MaxSteps
    /\ processor' = NewProcessor
    /\ gui' = [NewGui EXCEPT !.steps = gui.steps + 1]
    /\ status' = "ready"
    /\ last' = [op |-> "reset"]
    /\ UNCHANGED <<threads, posted, df, col, colOut, scoreIn, scoreOut>>

TaskStep ==
    \E w \in Workers :
        \/ TaskClean(w)
        \/ TaskStoreProcessed(w)
        \/ TaskAnalyze(w)
        \/ TaskStoreAnalyzed(w)
        \/ TaskReturn(w)
        \/ TaskSave(w)
        \/ TaskLeaveExcept(w)

NextThreads ==
    \/ SelectFile
    \/ ExecuteAnalysis
    \/ TaskStep
    \/ RunCallback
    \/ ResetApplication

SpecThreads == InitThreads /\ [][NextThreads]_vars

-----------------------------------------------------------------------------
(* Properties of the default cleaning.                                     *)

NoMissingCell(t) == \A c \in ColumnSet(t) : isnull_sum(Series(t, c)) = 0

\* the scenario table: ten rows, Region missing in rows 1 and 4, Sales
\* missing in row 2
TwoRegionsOneSaleMissing == ScenarioTable({1, 4}, {2}, "")

\* C1: cleaning a table of at least one row under the default strategy
\* (clean_data_with_strategy without a strategy) succeeds and returns a table
\* without a missing cell in any column; on the ten-row table with two missing
\* Region cells and one missing Sales cell the Region entry fills with the mode
\* and the Sales entry with the median.
C1_DefaultCleaningLeavesNoMissingCell ==
    (last.op = "clean_default" /\ Len(df.rows) >= 1) =>
        /\ last.out.ok
        /\ NoMissingCell(last.out.table)
        /\ df = TwoRegionsOneSaleMissing =>
              /\ last.out.applied["Region"] = Fill(Str("a"))
              /\ last.out.applied["Sales"] = Fill(Num(2000))

C1_ScenarioTableCleaned ==
    /\ last.op = "clean_default"
    /\ df = TwoRegionsOneSaleMissing
    /\ isnull_sum(Series(df, "Region")) = 2
    /\ isnull_sum(Series(df, "Sales")) = 1
    /\ last.out.ok
    /\ NoMissingCell(last.out.table)

\* the strategy of a panel run in which every column left on auto, or absent
\* from the panel's strategy, has the default strategy's entry
WithDefaults(t, strategy) ==
    LET default == _get_default_nan_strategy(ColumnSet(t), analyze_nan_values(t))
    IN  [c \in ColumnSet(t) |->
            IF c \in DOMAIN strategy /\ strategy[c].method # "auto"
            THEN strategy[c] ELSE default[c]]

\* C2: a cleaning run with the panel's strategy returns the table that
\* cleaning returns when every column the user left on auto, or that the
\* strategy does not name, has its default entry (keep without missing cells,
\* the default fill of its band otherwise).
C2_UnoverriddenColumnsGetDefaultEntry ==
    last.op = "clean_custom" =>
        /\ last.out.ok
        /\ last.out.table = clean_data_with_strategy(df, WithDefaults(df, last.strategy)).table

-----------------------------------------------------------------------------
(* Properties of the default strategy and of the column analysis, on one   *)
(* column.                                                                 *)

\* the statistic the default fill of a column is stated to use
TypeStatistic(p) == IF is_numeric_dtype(p.dtype) THEN p.stats.median ELSE p.stats.mode

\* C3: a column with missing percentage p, 0 < p <= 50, has the default entry
\* fill with the median of its values when numeric and with their mode when
\* categorical, in the band up to 20% and in the band from 20% to 50% alike.
C3_StatisticFillUpToHalfMissing ==
    (colOut.op = "nan" /\ col.null_count > 0 /\ 2 * col.null_count <= col.total_count) =>
        colOut.strategy["col"] = Fill(TypeStatistic(col))

\* C4: a column with more than 50% of its cells missing, numeric or
\* categorical, has the default entry fill with the sentinel "N/A".
C4_SentinelFillAboveHalfMissing ==
    (colOut.op = "nan" /\ 2 * col.null_count > col.total_count) =>
        colOut.strategy["col"] = Fill(Str("N/A"))

MissingTypes == {"high_missing", "medium_missing", "low_missing"}

MissingnessIssues(issues) == SelectSeq(issues, LAMBDA issue : issue.type \in MissingTypes)

\* C5: a column without missing cells gets no missing-related issue from the
\* column analysis and the entry keep from the default strategy; the default
\* strategy has an entry for every column of the table and none has method
\* drop.
C5_CompleteColumnKeptAndUnflagged ==
    /\ last.op = "assess" =>
          \A i \in DOMAIN df.columns :
              isnull_sum(Series(df, df.columns[i])) = 0 =>
                  MissingnessIssues(last.out.column_analysis[i].issues) = <<>>
    /\ (last.op = "clean_default" /\ last.out.ok) =>
          /\ DOMAIN last.out.applied = ColumnSet(df)
          /\ \A c \in ColumnSet(df) :
                /\ last.out.applied[c].method # "drop"
                /\ isnull_sum(Series(df, c)) = 0 => last.out.applied[c] = Keep

C5_CompleteColumnBesideIncomplete ==
    /\ last.op = "clean_default"
    /\ last.out.ok
    /\ isnull_sum(Series(df, "Region")) = 0
    /\ isnull_sum(Series(df, "Sales")) > 0
    /\ last.out.applied["Region"] = Keep
    /\ last.out.applied["Sales"].method = "fill"

\* the severities of the missingness issues stated for k missing cells of n
StatedSeverities(k, n) ==
    IF n = 0 THEN <<>>
    ELSE IF 100 * k > 50 * n THEN <<"critical">>
    ELSE IF 100 * k > 20 * n THEN <<"medium">>
    ELSE IF k > 0 THEN <<"low">>
    ELSE <<>>

\* C6: _analyze_column reports at most one missingness issue, the first that
\* matches of: more than 50% missing, critical; more than 20%, medium; more
\* than 0, low; none at 0.  A column of zero rows has missing percentage 0.
C6_OneMissingnessIssueByFirstMatch ==
    colOut.op = "column" =>
        LET missing == MissingnessIssues(colOut.analysis.issues)
        IN  /\ Len(missing) <= 1
            /\ [i \in DOMAIN missing |-> missing[i].severity]
                   = StatedSeverities(col.null_count, col.total_count)
            /\ col.total_count = 0 => colOut.analysis.null_percentage = 0

C6_JustAboveHalfIsCritical ==
    /\ colOut.op = "column"
    /\ col.total_count = 10001
    /\ col.null_count = 5001
    /\ col.outlier_count > 0
    /\ Len(colOut.analysis.issues) = 2
    /\ MissingnessIssues(colOut.analysis.issues)[1].severity = "critical"

-----------------------------------------------------------------------------
(* Properties of the quality score (in hundredths).                        *)

SeverityCount(issues, severity) == Len(SelectSeq(issues, LAMBDA issue : issue.severity = severity))

Clamp(score) == IF score < 0 THEN 0 ELSE IF score > 100 THEN 100 ELSE score

\* the score as stated, for the missing percentage num/den
StatedScore(num, den, issues, rows, columns) ==
    Clamp(100
          - (IF num > 50 * den THEN 50 ELSE IF num > 20 * den THEN 30
             ELSE IF num > 5 * den THEN 10 ELSE 0)
          - 20 * SeverityCount(issues, "critical")
          - 10 * SeverityCount(issues, "medium")
          + (IF rows > 1000 THEN 5 ELSE 0)
          + (IF columns > 5 THEN 5 ELSE 0))

\* C7: the quality score is the clamp to [0,1] of 1.0 less 0.5, 0.3 or 0.1
\* for a dataset missing percentage above 50, 20 or 5, less 0.2 per critical
\* issue and 0.1 per medium issue, plus 0.05 above 1000 rows and 0.05 above 5
\* columns; issues of severity low or high do not count; a dataset with
\* nothing missing, no issue, 1500 rows and 6 columns scores 1.0.
C7_ScoreIsTheStatedFormula ==
    scoreOut.op = "score" =>
        /\ scoreOut.quality_score =
               StatedScore(scoreIn.nan_percentage[1], scoreIn.nan_percentage[2],
                           scoreIn.issues, scoreIn.rows, scoreIn.columns)
        /\ (/\ scoreIn.nan_percentage = Percentage(0, 100)
            /\ scoreIn.issues = <<>>
            /\ scoreIn.rows = 1500
            /\ scoreIn.columns = 6) => scoreOut.quality_score = 100

C7_LowAndHighIssuesBesideMedium ==
    /\ scoreOut.op = "score"
    /\ scoreIn.nan_percentage = Percentage(21, 100)
    /\ SeverityCount(scoreIn.issues, "critical") = 1
    /\ SeverityCount(scoreIn.issues, "medium") = 2
    /\ SeverityCount(scoreIn.issues, "high") = 1
    /\ SeverityCount(scoreIn.issues, "low") = 1
    /\ scoreIn.rows = 1001
    /\ scoreIn.columns = 6
    /\ scoreOut.quality_score = 40

\* C8: the quality score assess_data_quality returns lies in [0,1], however
\* many critical and medium issues the columns raise and whatever the size
\* bonuses add.
C8_AssessedScoreWithinUnitInterval ==
    scoreOut.op = "assess" =>
        /\ scoreOut.out.quality_score >= 0
        /\ scoreOut.out.quality_score <= 100

C8_SixCriticalColumnsScoreZero ==
    /\ scoreOut.op = "assess"
    /\ scoreIn.total_rows = 1010
    /\ SeverityCount(scoreOut.out.overall_issues, "critical") = 6
    /\ scoreOut.out.quality_score = 0

-----------------------------------------------------------------------------
(* Properties of the aggregation.                                          *)

\* the measure cells, read as numbers, of the rows of category key
GroupMeasures(t, x_col, y_col, key) ==
    LET rows == SelectSeq(t.rows,
                    LAMBDA r : (IF r[x_col] = NaN THEN Str("Unknown") ELSE r[x_col]) = key)
    IN  [i \in DOMAIN rows |-> to_numeric(rows[i][y_col])]

\* the aggregate as stated: missing cells left out of mean, max and min, and
\* counted as 0 in sum
StatedAggregate(cells, operation) ==
    LET present == SortInts(NumValues(dropna(cells)))
    IN  IF operation = "sum" THEN Frac(SumInts(present), 1)
        ELSE IF present = <<>> THEN NaN
        ELSE IF operation = "mean" THEN Frac(SumInts(present), Len(present))
        ELSE IF operation = "max" THEN Frac(present[Len(present)], 1)
        ELSE Frac(present[1], 1)

\* C9: under mean, max and min a measure cell that is missing, or that is
\* not a number and so becomes missing when coerced, is left out of its
\* group's value, and under sum it adds 0, whether or not the measure column
\* had a missing cell before the coercion.
C9_MissingMeasuresLeftOutOfMeanMaxMin ==
    (last.op = "analyze" /\ last.out.ok /\ last.operation \in {"mean", "max", "min", "sum"}) =>
        \A j \in DOMAIN last.out.table :
            last.out.table[j].value =
                StatedAggregate(GroupMeasures(df, last.x_col, last.y_col, last.out.table[j].key),
                                last.operation)

\* the categories of a table once its missing category cells are "Unknown"
FilledCategories(t, x_col) ==
    {IF t.rows[i][x_col] = NaN THEN Str("Unknown") ELSE t.rows[i][x_col] : i \in DOMAIN t.rows}

\* C10: counting over a table of N >= 1 rows yields one result row per
\* distinct category, missing categories being the category "Unknown", and
\* the counts add up to N: every row is counted once, whatever its measure
\* cell holds.
C10_CountsPartitionTheRows ==
    (/\ last.op = "analyze"
     /\ last.operation = "count"
     /\ last.x_col = "Region"
     /\ last.y_col = "Sales"
     /\ Len(df.rows) >= 1) =>
        /\ last.out.ok
        /\ Len(last.out.table) = Cardinality(FilledCategories(df, "Region"))
        /\ SumInts([j \in DOMAIN last.out.table |-> last.out.table[j].value[2]])
               = 100 * Len(df.rows)
        /\ \A j \in DOMAIN last.out.table : last.out.table[j].value[3] = 1

C10_CountWithMissingCategoryAndMeasure ==
    /\ last.op = "analyze"
    /\ last.operation = "count"
    /\ df = ScenarioTable({1, 4}, {2}, "x")
    /\ last.out.ok
    /\ Len(last.out.table) = 3
    /\ \E j \in DOMAIN last.out.table :
          /\ last.out.table[j].key = Str("Unknown")
          /\ last.out.table[j].value = Frac(200, 1)

\* the category column of t as the grouping reads it
FilledSeries(t, x_col) ==
    [i \in DOMAIN t.rows |-> IF t.rows[i][x_col] = NaN THEN Str("Unknown") ELSE t.rows[i][x_col]]

\* the rows of a result are in descending order of value, missing values last
Descending(table) ==
    \A i, j \in DOMAIN table : i < j => ~ValueBefore(table[j].value, table[i].value)

\* one row per distinct category of the input
OneRowPerCategory(table, t, x_col) ==
    /\ {table[j].key : j \in DOMAIN table} = FilledCategories(t, x_col)
    /\ Len(table) = Cardinality(FilledCategories(t, x_col))

\* C11: the result of analyze_data_flexible has one row per distinct category,
\* in descending order of aggregated value, and groups of equal value are in
\* the order in which their categories first occur in the input table.
C11_TiesInOrderOfFirstOccurrence ==
    (last.op = "analyze" /\ last.out.ok) =>
        LET table == last.out.table
            x == FilledSeries(df, last.x_col)
        IN  /\ OneRowPerCategory(table, df, last.x_col)
            /\ Descending(table)
            /\ \A i, j \in DOMAIN table :
                  (i < j /\ table[i].value = table[j].value) =>
                      FirstIndex(x, table[i].key) < FirstIndex(x, table[j].key)

-----------------------------------------------------------------------------
(* Properties of error propagation.                                        *)

\* what a stage hands its caller is an error
IsError(outcome) == "error" \in DOMAIN outcome

\* C12: aggregating a table whose cleaned form has no rows never returns an
\* empty result: the caller gets a failure whose error kind is the
\* empty-result error (EmptyDataError), from analyze_data_flexible and through
\* process_data alike.
C12_EmptyTableFailsWithEmptyDataError ==
    (last.op \in {"analyze", "process"} /\ last.x_col = "Region" /\ last.y_col = "Sales"
     /\ Len(df.rows) = 0) =>
        /\ ~last.out.ok
        /\ last.out.error = "EmptyDataError"

\* C14: a core stage that hits an internal exception hands its caller an
\* error, never a substitute or empty result: the NaN analysis of a table
\* without cells, whose final division raises, ends in an error, and no
\* default strategy is derived from it.
C14_FailedAnalysisSurfacesAsError ==
    (colOut.op = "nan" /\ col.total_count = 0) =>
        /\ IsError(colOut.nan_analysis)
        /\ IsError(colOut.strategy)

-----------------------------------------------------------------------------
(* Properties of the cleaning steps.                                       *)

\* the rows of a sequence without the later of equal rows
KeepFirst(rows) ==
    LET idx == SelectSeq([i \in DOMAIN rows |-> i],
                         LAMBDA i : \A j \in 1..(i - 1) : rows[j] # rows[i])
    IN  [n \in DOMAIN idx |-> rows[idx[n]]]

\* a cleaning call on a table with rows that went through
Cleaned == last.op = "clean_with" /\ last.out.ok

\* the entry a pass of the column loop applies to column i, Keep when the
\* strategy has none
EntryOf(i) == Get(last.out.applied, df.columns[i], Keep)

MethodOf(i) == Get(EntryOf(i), "method", "fill")

\* C15: whatever the strategy, cleaning a table without missing cells returns
\* its rows with the same cells in the same order, less the later of fully
\* equal rows, and no pass of the column loop removes a row.
C15_CompleteTableOnlyLosesDuplicates ==
    (last.op = "clean_with" /\ Len(df.rows) >= 1 /\ NoMissingCell(df)) =>
        /\ last.out.ok
        /\ last.out.table.rows = KeepFirst(df.rows)
        /\ \A i \in DOMAIN last.steps : last.steps[i].rows = df.rows

C15_DropAndFillOnCompleteTable ==
    /\ Cleaned
    /\ NoMissingCell(df)
    /\ Len(df.rows) = 2
    /\ df.rows[1] = df.rows[2]
    /\ last.nan_strategy # NoStrategy
    /\ DOMAIN last.nan_strategy = {"Region", "Sales"}
    /\ last.nan_strategy["Region"] = Drop
    /\ last.nan_strategy["Sales"] = Fill(Num(0))
    /\ Len(last.out.table.rows) = 1

\* C16: a fill pass on column c with a literal value puts the value in every
\* missing cell of c and changes no other cell and no row count; a keep pass
\* changes nothing.
C16_FillTouchesOnlyMissingCellsOfItsColumn ==
    Cleaned =>
        \A i \in 1..Len(df.columns) :
            LET c == df.columns[i]
                before == last.steps[i - 1].rows
                after == last.steps[i].rows
            IN  /\ (MethodOf(i) = "fill" /\ "value" \in DOMAIN EntryOf(i)) =>
                      after = [n \in DOMAIN before |->
                                  [k \in DOMAIN before[n] |->
                                      IF k = c /\ before[n][k] = NaN
                                      THEN EntryOf(i).value ELSE before[n][k]]]
                /\ MethodOf(i) = "keep" => after = before

C16_FillBesideUntouchedMissingCell ==
    /\ Cleaned
    /\ last.nan_strategy # NoStrategy
    /\ DOMAIN last.nan_strategy = {"Region", "Sales"}
    /\ last.nan_strategy["Region"] = Fill(Str("Unknown"))
    /\ last.nan_strategy["Sales"] = Keep
    /\ \E n \in DOMAIN df.rows :
          /\ df.rows[n]["Region"] = NaN
          /\ df.rows[n]["Sales"] = NaN
          /\ last.steps[1].rows[n]["Region"] = Str("Unknown")
          /\ last.steps[2].rows[n]["Sales"] = NaN
    /\ \E n \in DOMAIN df.rows : df.rows[n]["Region"] = Str("a")

\* C17: a drop pass on column c removes from the table as it then stands the
\* rows whose cell in c is missing and no other row; the cleaned table has no
\* missing cell in a column whose method is drop, and no pass adds a row.
C17_DropRemovesExactlyRowsMissingInColumn ==
    Cleaned =>
        /\ \A i \in 1..Len(df.columns) :
              /\ MethodOf(i) = "drop" =>
                    last.steps[i].rows =
                        SelectSeq(last.steps[i - 1].rows, LAMBDA r : r[df.columns[i]] # NaN)
              /\ Len(last.steps[i].rows) <= Len(last.steps[i - 1].rows)
        /\ \A i \in 1..Len(df.columns) :
              MethodOf(i) = "drop" => isnull_sum(Series(last.out.table, df.columns[i])) = 0

C17_DropKeepsRowMissingElsewhere ==
    /\ Cleaned
    /\ last.nan_strategy # NoStrategy
    /\ DOMAIN last.nan_strategy = {"Region"}
    /\ last.nan_strategy["Region"] = Drop
    /\ Len(df.rows) = 2
    /\ df.rows[1]["Region"] = NaN
    /\ df.rows[2]["Region"] # NaN
    /\ df.rows[2]["Sales"] = NaN
    /\ last.steps[1].rows = <<df.rows[2]>>
    /\ last.out.table.rows = <<df.rows[2]>>

\* C18: after the column loop duplicate removal runs whatever the strategy
\* (none, a custom one, all keep, the empty dict): the cleaned table has no
\* two equal rows, and every distinct row left by the loop is there once, at
\* the place of its first occurrence.
C18_DuplicatesAlwaysRemovedKeepingFirst ==
    Cleaned =>
        LET rows == last.out.table.rows
        IN  /\ \A i, j \in DOMAIN rows : i # j => rows[i] # rows[j]
            /\ rows = KeepFirst(last.steps[Len(df.columns)].rows)

C18_EmptyStrategyStillRemovesDuplicates ==
    /\ Cleaned
    /\ last.nan_strategy = EmptyDict
    /\ Len(df.rows) = 2
    /\ df.rows[1] = df.rows[2]
    /\ df.rows[1]["Sales"] = NaN
    /\ last.out.table.rows = <<df.rows[1]>>

\* C19: the duplicates-removed count clean_data_with_strategy reports is the
\* number of rows the duplicate removal alone took out (rows after the column
\* loop less final rows), also under strategies with drop entries; the
\* initial and final counts are those of the input and the returned table.
C19_ReportedDuplicatesAreDuplicatesOnly ==
    Cleaned =>
        /\ last.out.removed_duplicates
               = Len(last.steps[Len(df.columns)].rows) - Len(last.out.table.rows)
        /\ last.out.initial_rows = Len(df.rows)
        /\ last.out.final_rows = Len(last.out.table.rows)

-----------------------------------------------------------------------------
(* Properties of a session.                                                *)

\* C13: a process_data that fails, at whatever stage, leaves raw_data,
\* processed_data and analyzed_data as they were before the call, so a column
\* that is not found is noticed before any cleaning and processed_data and
\* analyzed_data never come from different calls.
C13_FailedProcessingLeavesStateIntact ==
    (last.op \in {"run", "process_data"} /\ ~last.out.ok) => processor = last.before

\* C20: no analysis run passes the cleaner a strategy built from the NaN
\* analysis of a table other than the one loaded: a strategy chosen for one
\* file is never applied to the next.
C20_StrategyBuiltFromLoadedTable ==
    (last.op = "run" /\ last.nan_strategy # NoStrategy) =>
        last.strategy_source = last.before.raw_data

-----------------------------------------------------------------------------
(* The missingness bands of the two analysers compared.                    *)

\* C26: for every column the band that classifies the severity of its
\* missingness issue and the band that chooses its default strategy are the
\* same: the issue is critical exactly when the default entry is the fill with
\* "N/A", and medium exactly when the default strategy takes its branch from
\* 20% to 50%.
C26_SameBandForSeverityAndStrategy ==
    (colOut.op = "nan" /\ col.null_count > 0) =>
        LET missing == MissingnessIssues(_analyze_column(col).issues)
            percentage == colOut.nan_analysis.columns_with_nan["col"].percentage
        IN  /\ Len(missing) = 1
            /\ missing[1].severity = "critical" <=> colOut.strategy["col"] = Fill(Str("N/A"))
            /\ missing[1].severity = "medium" <=> (percentage > 2000 /\ percentage <= 5000)

-----------------------------------------------------------------------------
(* The quality score against the number of outliers.                       *)

\* the columns given with count outliers detected in column i
WithOutliers(profiles, i, count) == [profiles EXCEPT ![i].outlier_count = count]

\* C28: with everything else held fixed, the quality score of a table never
\* increases when more outliers are detected in one of its columns.
C28_MoreOutliersNeverRaiseTheScore ==
    scoreOut.op = "assess" =>
        \A i \in DOMAIN scoreIn.profiles :
            \A count \in (scoreIn.profiles[i].outlier_count + 1)..MaxOutliers :
                AssessColumns(WithOutliers(scoreIn.profiles, i, count),
                              scoreIn.total_rows).quality_score
                    <= scoreOut.out.quality_score

-----------------------------------------------------------------------------
(* The order of the column loop.                                           *)

\* the orders in which the columns of a table can be processed
ColumnOrders(t) ==
    {order \in [1..Len(t.columns) -> ColumnSet(t)] :
        \A c \in ColumnSet(t) : \E i \in DOMAIN order : order[i] = c}

\* the rows returned when the column loop takes the columns in the order given
RowsInOrder(t, order, nan_strategy) ==
    drop_duplicates(ApplyColumns(t, order, 1, nan_strategy, analyze_nan_values(t))).rows

\* C29: the rows clean_data_with_strategy returns, their cells and their
\* order, are those of the column loop run over the columns in any order.
C29_ColumnOrderDoesNotChangeTheRows ==
    Cleaned =>
        \A order \in ColumnOrders(df) :
            RowsInOrder(df, order, last.out.applied) = last.out.table.rows

C29_DropBeforeFillAndFillBeforeDrop ==
    /\ Cleaned
    /\ last.nan_strategy # NoStrategy
    /\ DOMAIN last.nan_strategy = {"Region", "Sales"}
    /\ last.nan_strategy["Region"] = Drop
    /\ last.nan_strategy["Sales"] = [method |-> "fill"]
    /\ \E n \in DOMAIN df.rows : df.rows[n]["Region"] = NaN /\ df.rows[n]["Sales"] # NaN
    /\ \E n \in DOMAIN df.rows : df.rows[n]["Region"] # NaN /\ df.rows[n]["Sales"] = NaN
    /\ Len(last.steps[1].rows) <
           Len(ApplyColumn(df, "Sales", last.out.applied, analyze_nan_values(df)).rows)
    /\ RowsInOrder(df, <<"Sales", "Region">>, last.out.applied) = last.out.table.rows
    /\ Len(last.out.table.rows) = 1

-----------------------------------------------------------------------------
(* The results of the processor against the table loaded.                  *)

\* C25: after a file has been loaded the processor holds no processed_data and
\* no analyzed_data (is_ready_for_charting is false): what it holds is never
\* the result of the file loaded before.
C25_LoadLeavesNoEarlierResult ==
    last.op = "load" =>
        /\ processor.processed_data = NoData
        /\ processor.analyzed_data = NoData

-----------------------------------------------------------------------------
(* The strategy of a run against the choices the panel shows.              *)

\* C24: an analysis run that passes a custom strategy to the cleaner passes
\* the strategy the NaN panel shows when the run starts, whatever method
\* radios, fill sub-options, custom values and global buttons came before.
C24_RunPassesTheStrategyShown ==
    (last.op = "run" /\ last.nan_strategy # NoStrategy) =>
        \A c \in DOMAIN gui.panel.strategy_vars :
            /\ c \in DOMAIN last.nan_strategy
            /\ last.nan_strategy[c] =
                   get_nan_strategy(gui.panel.strategy_vars, gui.panel.nan_analysis)[c]

-----------------------------------------------------------------------------
(* The AI dialog and the start of the analysis.                            *)

\* C27: from the dialog the analysis runs only on the result proceed, given
\* by the proceed button that exists when the quality score is above 0.5, or
\* on the result force_proceed, given by the warning button that exists
\* otherwise once its confirmation is accepted; cancel, customize, a declined
\* confirmation and closing the window start nothing.
C27_AnalysisStartsOnlyOnProceed ==
    /\ last.op = "run" =>
          \/ last.button = "proceed" /\ last.result = "proceed" /\ last.quality_score > 50
          \/ last.button = "warning" /\ last.result = "force_proceed"
                 /\ last.quality_score <= 50
    /\ last.op = "dialog" =>
          /\ last.result \in {"cancel", "customize", "None"}
          /\ processor = last.before
    /\ last.op = "preview" => processor = last.before

C27_ForcedRunOnLowQuality ==
    /\ last.op = "run"
    /\ last.result = "force_proceed"
    /\ last.quality_score = 50
    /\ last.before.raw_data = FileA
    /\ last.out.ok
    /\ processor.analyzed_data # NoData

-----------------------------------------------------------------------------
(* The loaded table through previews and analyses.                         *)

\* C30: preview_analysis and process_data, with the default or a custom
\* strategy, succeeding or failing, leave raw_data with the rows and cells it
\* had, and process_data repeated with the same arguments gives the same
\* outcome.
C30_RawDataIsNeverModified ==
    /\ last.op = "preview" => processor = last.before
    /\ last.op \in {"run", "process_data"} =>
          /\ processor.raw_data = last.before.raw_data
          /\ process_data(processor, last.x_col, last.y_col, last.operation,
                          last.nan_strategy).out = last.out

C30_CustomRunLeavesMissingCells ==
    /\ last.op = "run"
    /\ last.nan_strategy # NoStrategy
    /\ last.out.ok
    /\ processor.raw_data = FileB
    /\ ~NoMissingCell(processor.raw_data)
    /\ NoMissingCell(processor.processed_data)
    /\ processor.processed_data.rows # processor.raw_data.rows

-----------------------------------------------------------------------------
(* Properties of the analysis worker threads.                              *)

\* no thread is running and the main loop has run every posted callback:
\* nothing is left that could report a thread's outcome
Quiet == posted = <<>> /\ \A w \in Workers : threads[w].pc \in {"idle", "done"}

\* C21: every analysis thread started by _execute_analysis reports one
\* outcome to the main loop, the completion handler when it succeeded and
\* the error handler when it failed, and the status bar is not left on
\* "working": once the threads have ended and their callbacks have run, each
\* started thread has been reported by its handler and the status bar shows
\* a state other than "working".
C21_EndedThreadHasReported ==
    Quiet =>
        /\ status # "working"
        /\ \A w \in Workers :
              threads[w].pc = "done" =>
                  threads[w].reported = IF threads[w].cause = ""
                                        THEN "_on_analysis_complete"
                                        ELSE "_on_analysis_error"

\* C22: after _reset_application, and until a file is loaded again, the
\* processor's raw_data, processed_data and analyzed_data and the GUI's
\* analysis_result are None, whatever a thread started before the reset does.
C22_ResetStaysEmptyUntilLoad ==
    last.op = "reset" =>
        /\ processor = NewProcessor
        /\ gui.analysis_result = NoData

\* what one synchronous pass of thread w stores in analyzed_data: the
\* aggregation, under its operation, of the table its own cleaning returned
OwnAggregation(w) ==
    [table |-> analyze_data_flexible(threads[w].df_cleaned, "Region", "Sales",
                                     threads[w].operation).table]

\* C23: with overlapping analysis threads each run is one synchronous pass:
\* what a thread stores in analyzed_data is the aggregation, under its own
\* operation, of the table its own cleaning returned, and once the threads
\* have ended processed_data and analyzed_data are the two tables of one
\* thread.
C23_EachRunIsOneSynchronousPass ==
    /\ \A w \in Workers :
          threads[w].stored # NoData => threads[w].stored = OwnAggregation(w)
    /\ (Quiet /\ processor.processed_data # NoData /\ processor.analyzed_data # NoData) =>
          \E w \in Workers :
              /\ threads[w].stored # NoData
              /\ processor.processed_data = threads[w].df_cleaned
              /\ processor.analyzed_data = threads[w].stored

====
